---- MODULE Spec2Model ----
(***************************************************************************)
(* Verification model of the PUFFINN prefix map (puffinn/prefixmap.hpp)    *)
(* and of the hash word type it is built on (LshDatatype.hpp).             *)
(*                                                                         *)
(* Words are WordBits wide instead of 32, codes MAX_HASHBITS long instead  *)
(* of 24, sub-hashes BITS_PER_FUNCTION wide instead of 4, the top-bit      *)
(* index covers PREFIX_INDEX_BITS instead of 13 bits and a segment holds   *)
(* SEGMENT_SIZE instead of 12 entries.  The proportions of the source are  *)
(* kept: WordBits > MAX_HASHBITS >= PREFIX_INDEX_BITS, and                 *)
(* PREFIX_INDEX_BITS is not a multiple of BITS_PER_FUNCTION.               *)
(* Positions in hashes[] and indices[] are 0-based as in the source; the   *)
(* sequences that hold them are read through At.                           *)
(***************************************************************************)
EXTENDS Integers, Sequences, FiniteSets, TLC

\* ---- scaled sizes (the source values are in the comments) ----
WordBits == 8            \* uint32_t: 32
MAX_HASHBITS == 4        \* typedefs.hpp: 24
BITS_PER_FUNCTION == 2   \* typedefs.hpp: 4
PREFIX_INDEX_BITS == 3   \* prefixmap.hpp: 13
SEGMENT_SIZE == 2        \* prefixmap.hpp: 12
MaxThreads == 2          \* omp_get_max_threads()
MaxN == 3                \* most vectors ever inserted

\* The hash codes the callers insert and query (MAX_HASHBITS-bit values).
HashVals == {4, 5, 8}
QueryVals == HashVals \cup {6}

\* Most get_next_range calls made on one query: one per sub-hash of a code.
MaxCalls == MAX_HASHBITS \div BITS_PER_FUNCTION

\* ---- unsigned word arithmetic (HammingType<uint32_t>) ----
WordMod == 2 ^ WordBits

IMPOSSIBLE_PREFIX == WordMod - 1

ShiftLeft(x, n) == (x * (2 ^ n)) % WordMod

ShiftRight(x, n) == x \div (2 ^ n)

RECURSIVE BitAnd(_, _)
BitAnd(x, y) ==
    IF x = 0 \/ y = 0 THEN 0
    ELSE (x % 2) * (y % 2) + 2 * BitAnd(x \div 2, y \div 2)

\* pop_hash leaving the value as it is
pop_hashNoShift(value, bits) == value

\* HammingType::pop_hash: value = value << bits
pop_hash(value, bits) == ShiftLeft(value, bits)

\* HammingType::prefix_eq: this->value == (other & mask)
prefix_eq(this, other, mask) == this = BitAnd(other, mask)

\* 0-based read of a vector
At(s, i) == s[i + 1]

Max(a, b) == IF a >= b THEN a ELSE b

Min(a, b) == IF a <= b THEN a ELSE b

\* n copies of v
RECURSIVE Repeat(_, _)
Repeat(v, n) == IF n = 0 THEN <<>> ELSE <<v>> \o Repeat(v, n - 1)

\* ---- sort_two_lists (sorthash.hpp): order by hash code, ties by id ----
PairLess(a, b) == a[2] < b[2] \/ (a[2] = b[2] /\ a[1] < b[1])

RECURSIVE InsertSorted(_, _)
InsertSorted(p, s) ==
    IF s = <<>> THEN <<p>>
    ELSE IF PairLess(p, Head(s)) THEN <<p>> \o s
    ELSE <<Head(s)>> \o InsertSorted(p, Tail(s))

RECURSIVE sort_two_lists(_)
sort_two_lists(pairs) ==
    IF pairs = <<>> THEN <<>>
    ELSE InsertSorted(Head(pairs), sort_two_lists(Tail(pairs)))

\* ---- PrefixMap::rebuild ----
\* Pairs are <<idx, hash>> as HashedVecIdx.

\* lines 175-178: total number of pending pairs over all shards
RECURSIVE rebuilding_data_size(_)
rebuilding_data_size(prd) ==
    IF prd = <<>> THEN 0 ELSE Len(Head(prd)) + rebuilding_data_size(Tail(prd))

\* Unpadded with the copy loop started one entry late
UnpaddedSkipFirst(idxs, hs) ==
    IF Len(hs) = 0 THEN <<>>
    ELSE [i \in 1..(Len(hs) - 2 * SEGMENT_SIZE - 1) |->
            <<idxs[SEGMENT_SIZE + 1 + i], hs[SEGMENT_SIZE + 1 + i]>>]

\* lines 185-191: the stored entries without the two pads
Unpadded(idxs, hs) ==
    IF Len(hs) = 0 THEN <<>>
    ELSE [i \in 1..(Len(hs) - 2 * SEGMENT_SIZE) |->
            <<idxs[SEGMENT_SIZE + i], hs[SEGMENT_SIZE + i]>>]

\* lines 192-197: the pending pairs, shard after shard
RECURSIVE Gathered(_)
Gathered(prd) ==
    IF prd = <<>> THEN <<>> ELSE Head(prd) \o Gathered(Tail(prd))

\* Padded with the right pad one sentinel short
PaddedShortRight(vals, pad) ==
    Repeat(pad, SEGMENT_SIZE) \o vals \o Repeat(pad, SEGMENT_SIZE - 1)

\* lines 203-223: SEGMENT_SIZE sentinels on each side of the sorted values
Padded(vals, pad) ==
    Repeat(pad, SEGMENT_SIZE) \o vals \o Repeat(pad, SEGMENT_SIZE)

\* lines 229-234: the inner while loop of the prefix_index construction
RECURSIVE AdvanceIdx(_, _, _, _, _)
AdvanceIdx(hs, idx, prefix, rds, hlen) ==
    IF idx < rds
       /\ ShiftRight(At(hs, SEGMENT_SIZE + idx), hlen - PREFIX_INDEX_BITS) < prefix
    THEN AdvanceIdx(hs, idx + 1, prefix, rds, hlen)
    ELSE idx

\* lines 227-236: the for loop over the prefixes; yields prefix_index[prefix..]
RECURSIVE PrefixIndexFrom(_, _, _, _, _)
PrefixIndexFrom(hs, idx, prefix, rds, hlen) ==
    IF prefix = 2 ^ PREFIX_INDEX_BITS THEN <<>>
    ELSE LET i == AdvanceIdx(hs, idx, prefix, rds, hlen)
         IN  <<SEGMENT_SIZE + i>> \o PrefixIndexFrom(hs, i, prefix + 1, rds, hlen)

\* lines 225-237: prefix_index, a function on 0..2^PREFIX_INDEX_BITS
BuildPrefixIndex(hs, rds, hlen) ==
    LET body == PrefixIndexFrom(hs, 0, 0, rds, hlen) \o <<SEGMENT_SIZE + rds>>
    IN  [p \in 0..(2 ^ PREFIX_INDEX_BITS) |-> body[p + 1]]

\* lines 173-244: the whole of rebuild, as the new field values
RebuildResult(idxs, hs, prd, hlen) ==
    LET rds    == rebuilding_data_size(prd)
        sorted == sort_two_lists(Unpadded(idxs, hs) \o Gathered(prd))
        nh     == Padded([i \in 1..Len(sorted) |-> sorted[i][2]], IMPOSSIBLE_PREFIX)
        ni     == Padded([i \in 1..Len(sorted) |-> sorted[i][1]], 0)
    IN  [indices |-> ni,
         hashes |-> nh,
         prefix_index |-> BuildPrefixIndex(nh, rds, hlen),
         parallel_rebuilding_data |-> [t \in 1..Len(prd) |-> <<>>]]

\* ---- PrefixMapQuery ----
\* lines 52-57: the halving search between the two hints
RECURSIVE HalvingSearch(_, _, _, _)
HalvingSearch(hs, hash, prefix_start, half) ==
    IF half = 0 THEN prefix_start
    ELSE LET h2  == half \div 2
             mid == prefix_start + h2
         IN  HalvingSearch(hs, hash,
                           IF At(hs, mid) < hash THEN mid + 1 ELSE prefix_start,
                           h2)

\* the constructor without line 59: prefix_end keeps the hint
PrefixMapQueryKeepEnd(hash, hs, prefix_index_start, prefix_index_end) ==
    LET start == HalvingSearch(hs, hash, prefix_index_start,
                               prefix_index_end - prefix_index_start)
    IN  [hash |-> hash,
         prefix_mask |-> IMPOSSIBLE_PREFIX,
         prefix_start |-> start,
         prefix_end |-> prefix_index_end]

\* lines 40-61: the constructor
PrefixMapQuery(hash, hs, prefix_index_start, prefix_index_end) ==
    LET start == HalvingSearch(hs, hash, prefix_index_start,
                               prefix_index_end - prefix_index_start)
    IN  [hash |-> hash,
         prefix_mask |-> IMPOSSIBLE_PREFIX,
         prefix_start |-> start,
         prefix_end |-> start]

\* ---- PrefixMap::create_query ----
\* m is a map: [indices, hashes, prefix_index, hash_length]
create_query(m, hash) ==
    LET prefix == ShiftRight(hash, m.hash_length - PREFIX_INDEX_BITS)
    IN  PrefixMapQuery(hash, m.hashes, m.prefix_index[prefix], m.prefix_index[prefix + 1])

\* ---- PrefixMap::get_next_range ----
\* lines 276-278: step right while the probed entry shares the prefix
RECURSIVE RightLoop(_, _, _, _)
RightLoop(hs, hash_code_prefix, mask, next_idx_right) ==
    IF prefix_eq(hash_code_prefix, At(hs, next_idx_right), mask)
    THEN RightLoop(hs, hash_code_prefix, mask, next_idx_right + SEGMENT_SIZE)
    ELSE next_idx_right

\* lines 289-291: step left; the condition probes hashes[next_idx_right]
RECURSIVE LeftLoop(_, _, _, _, _)
LeftLoop(hs, hash_code_prefix, mask, next_idx_right, next_idx_left) ==
    IF prefix_eq(hash_code_prefix, At(hs, next_idx_right), mask)
    THEN LeftLoop(hs, hash_code_prefix, mask, next_idx_right, next_idx_left - SEGMENT_SIZE)
    ELSE next_idx_left

\* ClampRight with the range ended one past the probe that failed
ClampRightInclusive(size, start_idx_right, end_idx_right) ==
    IF end_idx_right >= size - SEGMENT_SIZE
    THEN Max(start_idx_right, end_idx_right - SEGMENT_SIZE)
    ELSE end_idx_right + 1

\* lines 281-285: keep the right range out of the padding
ClampRight(size, start_idx_right, end_idx_right) ==
    IF end_idx_right >= size - SEGMENT_SIZE
    THEN Max(start_idx_right, end_idx_right - SEGMENT_SIZE)
    ELSE end_idx_right

\* lines 293-295: keep the left range out of the padding
ClampLeft(end_idx_left, start_idx_left) ==
    IF start_idx_left < SEGMENT_SIZE
    THEN Min(end_idx_left, start_idx_left + SEGMENT_SIZE)
    ELSE start_idx_left

\* get_next_range without the two clamps of lines 281-285 and 293-295
get_next_rangeUnclamped(m, query) ==
    LET mask             == pop_hash(query.prefix_mask, BITS_PER_FUNCTION)
        hash_code_prefix == BitAnd(query.hash, mask)
        start_idx_right  == query.prefix_end
        next_idx_right   == RightLoop(m.hashes, hash_code_prefix, mask, start_idx_right)
        end_idx_left     == (query.prefix_start - 1) + 1
        next_idx_left    == LeftLoop(m.hashes, hash_code_prefix, mask,
                                     next_idx_right, query.prefix_start - 1)
    IN  [query |-> [query EXCEPT !.prefix_mask = mask],
         left  |-> <<next_idx_left + 1, end_idx_left>>,
         right |-> <<start_idx_right, next_idx_right>>]

\* lines 266-299: the query after the call and the two ranges, each <<first, past-last>>
\* as positions of indices[].  The call writes query.prefix_mask only.
get_next_range(m, query) ==
    LET mask             == pop_hash(query.prefix_mask, BITS_PER_FUNCTION)
        hash_code_prefix == BitAnd(query.hash, mask)
        start_idx_right  == query.prefix_end
        next_idx_right   == RightLoop(m.hashes, hash_code_prefix, mask, start_idx_right)
        end_idx_right    == ClampRight(Len(m.indices), start_idx_right, next_idx_right)
        end_idx_left     == (query.prefix_start - 1) + 1
        next_idx_left    == LeftLoop(m.hashes, hash_code_prefix, mask,
                                     next_idx_right, query.prefix_start - 1)
        start_idx_left   == ClampLeft(end_idx_left, next_idx_left + 1)
    IN  [query |-> [query EXCEPT !.prefix_mask = mask],
         left  |-> <<start_idx_left, end_idx_left>>,
         right |-> <<start_idx_right, end_idx_right>>]

\* InsertResult with the pair also written straight into the sorted arrays
InsertResultVisible(idxs, hs, pidx, prd, tid, idx, hash_value) ==
    [indices |-> Append(idxs, idx),
     hashes |-> Append(hs, hash_value),
     prefix_index |-> pidx,
     parallel_rebuilding_data |->
         [prd EXCEPT ![tid + 1] = Append(@, <<idx, hash_value>>)]]

\* ---- PrefixMap::insert ----
\* lines 161-163: push the pair on the caller's shard; the fields of the map
\* after the call
InsertResult(idxs, hs, pidx, prd, tid, idx, hash_value) ==
    [indices |-> idxs,
     hashes |-> hs,
     prefix_index |-> pidx,
     parallel_rebuilding_data |->
         [prd EXCEPT ![tid + 1] = Append(@, <<idx, hash_value>>)]]

\* ---- PrefixMap::serialize ----
\* lines 132-158: the fields in the order they are written; the raw bytes of
\* each field are modelled by the field's value
serialize(idxs, hs, pidx, prd, hlen) ==
    [len |-> Len(idxs),
     indices |-> idxs,
     hashes |-> hs,
     rebuilding_len |-> rebuilding_data_size(prd),
     rebuilding |-> Gathered(prd),
     hash_length |-> hlen,
     prefix_index |-> pidx]

\* ---- PrefixMap::PrefixMap(std::istream&) ----
\* lines 103-130.  parallel_rebuilding_data is default-constructed (no shard)
\* and never resized, so line 121 indexes an empty vector when the snapshot
\* holds pending pairs: undefined behaviour, modelled by its outcomes, a crash
\* or a write that never becomes part of the vector.
DeserializeOutcomes(bytes) ==
    LET read == [outcome |-> "loaded",
                 indices |-> bytes.indices,
                 hashes |-> bytes.hashes,
                 parallel_rebuilding_data |-> <<>>,
                 hash_length |-> bytes.hash_length,
                 prefix_index |-> bytes.prefix_index]
    IN  IF bytes.rebuilding_len = 0
        THEN {read}
        ELSE {read, [read EXCEPT !.outcome = "crashed"]}

VARIABLES
    indices,                   \* PrefixMap::indices
    hashes,                    \* PrefixMap::hashes
    parallel_rebuilding_data,  \* PrefixMap::parallel_rebuilding_data, one shard per thread
    hash_length,               \* PrefixMap::hash_length
    prefix_index,              \* PrefixMap::prefix_index
    query,                     \* the caller's live PrefixMapQuery: <<>> or <<q>>
    returned,                  \* the ranges its get_next_range calls returned, in order
    inserted,                  \* the hash each VectorId was inserted with (VectorId i at i+1)
    stream,                    \* the snapshot being passed from serialize to the loader
    loaded,                    \* the map the loader constructed from it
    todo,                      \* parallel region: the VectorIds each thread has still to insert
    queries,                   \* the PrefixMapQuery objects of concurrent searches
    l2,                        \* an L2HashFunction, its snapshot and the function loaded from it
    pool,                      \* a HashPool and the output of its last hash_repetitions
    store,                     \* the destination of RealVectorFormat::store and the call's outcome
    capi                       \* the C API: the live handles and the outcome of the last call

vars == <<indices, hashes, parallel_rebuilding_data, hash_length, prefix_index,
          query, returned, inserted, stream, loaded,
          todo, queries, l2, pool, store, capi>>

\* the variables of the other components, which the prefix map never touches
otherVars == <<todo, queries, l2, pool, store, capi>>

\* the other components before they are used
OtherIdle ==
    /\ todo = <<>>
    /\ queries = <<>>
    /\ l2 = <<>>
    /\ pool = <<>>
    /\ store = <<>>
    /\ capi = <<>>

mapVars == <<indices, hashes, parallel_rebuilding_data, hash_length, prefix_index>>

\* The map as the query operators read it.
Map == [indices |-> indices, hashes |-> hashes,
        prefix_index |-> prefix_index, hash_length |-> hash_length]

NoSnapshot == stream = <<>> /\ loaded = <<>>

\* lines 94-101: PrefixMap(hash_length): rebuild() on the empty map, then one
\* shard per thread
Init ==
    LET r == RebuildResult(<<>>, <<>>, <<>>, MAX_HASHBITS)
    IN  /\ indices = r.indices
        /\ hashes = r.hashes
        /\ prefix_index = r.prefix_index
        /\ parallel_rebuilding_data = [t \in 1..MaxThreads |-> <<>>]
        /\ hash_length = MAX_HASHBITS
        /\ query = <<>>
        /\ returned = <<>>
        /\ inserted = <<>>
        /\ stream = <<>>
        /\ loaded = <<>>
        /\ OtherIdle

\* insert(tid, idx, hash_value) by thread tid; the caller numbers the vectors
\* in insertion order
Insert(tid, hash_value) ==
    /\ NoSnapshot
    /\ Len(inserted) < MaxN
    /\ LET r == InsertResult(indices, hashes, prefix_index, parallel_rebuilding_data,
                             tid, Len(inserted), hash_value)
       IN  /\ indices' = r.indices
           /\ hashes' = r.hashes
           /\ prefix_index' = r.prefix_index
           /\ parallel_rebuilding_data' = r.parallel_rebuilding_data
    /\ inserted' = Append(inserted, hash_value)
    /\ UNCHANGED <<hash_length, query, returned, stream, loaded>>
    /\ UNCHANGED otherVars

\* rebuild(); the ranges of a query point into indices[], so no query is live
Rebuild ==
    /\ NoSnapshot
    /\ query = <<>>
    /\ LET r == RebuildResult(indices, hashes, parallel_rebuilding_data, hash_length)
       IN  /\ indices' = r.indices
           /\ hashes' = r.hashes
           /\ prefix_index' = r.prefix_index
           /\ parallel_rebuilding_data' = r.parallel_rebuilding_data
    /\ UNCHANGED <<hash_length, query, returned, inserted, stream, loaded>>
    /\ UNCHANGED otherVars

\* create_query(hash)
CreateQuery(hash) ==
    /\ NoSnapshot
    /\ query = <<>>
    /\ query' = <<create_query(Map, hash)>>
    /\ returned' = <<>>
    /\ UNCHANGED <<mapVars, inserted, stream, loaded>>
    /\ UNCHANGED otherVars

\* get_next_range(query), at most once per sub-hash of the code
GetNextRange ==
    /\ NoSnapshot
    /\ query # <<>>
    /\ Len(returned) < MaxCalls
    /\ LET r == get_next_range(Map, query[1])
       IN  /\ query' = <<r.query>>
           /\ returned' = Append(returned, [left |-> r.left, right |-> r.right])
    /\ UNCHANGED <<mapVars, inserted, stream, loaded>>
    /\ UNCHANGED otherVars

\* the query object goes out of scope
EndQuery ==
    /\ NoSnapshot
    /\ query # <<>>
    /\ query' = <<>>
    /\ returned' = <<>>
    /\ UNCHANGED <<mapVars, inserted, stream, loaded>>
    /\ UNCHANGED otherVars

\* serialize(out)
Serialize ==
    /\ NoSnapshot
    /\ query = <<>>
    /\ stream' = <<serialize(indices, hashes, prefix_index,
                             parallel_rebuilding_data, hash_length)>>
    /\ UNCHANGED <<mapVars, query, returned, inserted, loaded>>
    /\ UNCHANGED otherVars

\* PrefixMap(in) on the snapshot just written
Deserialize ==
    /\ stream # <<>>
    /\ \E m \in DeserializeOutcomes(stream[1]) : loaded' = <<m>>
    /\ stream' = <<>>
    /\ UNCHANGED <<mapVars, query, returned, inserted>>
    /\ UNCHANGED otherVars

\* the loaded map is destroyed
DropLoaded ==
    /\ loaded # <<>>
    /\ loaded' = <<>>
    /\ UNCHANGED <<mapVars, query, returned, inserted, stream>>
    /\ UNCHANGED otherVars

Next ==
    \/ \E tid \in 0..(MaxThreads - 1), h \in HashVals : Insert(tid, h)
    \/ Rebuild
    \/ \E q \in QueryVals : CreateQuery(q)
    \/ GetNextRange
    \/ EndQuery
    \/ Serialize
    \/ Deserialize
    \/ DropLoaded

Spec == Init /\ [][Next]_vars

\* ---- what the callers observe ----
\* the positions of a range <<first, past-last>>
RangeSet(r) == r[1]..(r[2] - 1)

\* the positions of hashes[] between the two pads
RealPositions(hs) == SEGMENT_SIZE..(Len(hs) - SEGMENT_SIZE - 1)

\* the positions one get_next_range call returned
CallPositions(c) == RangeSet(c.left) \cup RangeSet(c.right)

\* hashes[p] shares the prefix of hash under mask (the test of lines 276 and 289)
Agrees(hs, p, hash, mask) == prefix_eq(BitAnd(hash, mask), At(hs, p), mask)

\* the ranges of n successive get_next_range calls on query qu
RECURSIVE RangesFrom(_, _, _)
RangesFrom(m, qu, n) ==
    IF n = 0 THEN <<>>
    ELSE LET r == get_next_range(m, qu)
         IN  <<[left |-> r.left, right |-> r.right]>> \o RangesFrom(m, r.query, n - 1)

\* everything a caller can learn from the map about hash q: the query that
\* create_query builds and the ranges of the MaxCalls calls that follow
QueryTrace(m, q) ==
    LET c == create_query(m, q)
    IN  [created |-> c, ranges |-> RangesFrom(m, c, MaxCalls)]

PendingCount == rebuilding_data_size(parallel_rebuilding_data)

\* ---- C1 ----
\* C1: exact-match retrieval.  Once a query has made its MaxCalls
\* get_next_range calls, every stored entry whose hash equals the query hash
\* lies in one of the returned ranges.
C1_ExactMatchRetrieval ==
    (query # <<>> /\ Len(returned) = MaxCalls) =>
        \A p \in RealPositions(hashes) :
            At(hashes, p) = query[1].hash =>
                \E k \in 1..Len(returned) : p \in CallPositions(returned[k])

\* ---- C2 ----
\* C2: no re-visit.  The ranges returned to one query are pairwise disjoint:
\* the two ranges of one call, and the ranges of any two calls.
C2_NoRevisit ==
    /\ \A k \in 1..Len(returned) :
           RangeSet(returned[k].left) \cap RangeSet(returned[k].right) = {}
    /\ \A j, k \in 1..Len(returned) :
           j < k => CallPositions(returned[j]) \cap CallPositions(returned[k]) = {}

\* ---- C3 ----
\* C3: leftward expansion.  The left range returned by a get_next_range call
\* holds every stored entry below the query's prefix_start whose hash agrees
\* with the query hash under the mask of that call.
C3_LeftExpansion ==
    [][GetNextRange =>
        \A p \in RealPositions(hashes) :
            (p < query[1].prefix_start
             /\ Agrees(hashes, p, query[1].hash, query'[1].prefix_mask))
            => p \in RangeSet(returned'[Len(returned')].left)]_vars

\* ---- C4 ----
\* C4: rebuild idempotence.  A rebuild with no pending pair leaves hashes,
\* indices and prefix_index as they were, and so every query trace.
C4_RebuildIdempotent ==
    [][(Rebuild /\ PendingCount = 0) =>
        /\ hashes' = hashes
        /\ indices' = indices
        /\ prefix_index' = prefix_index
        /\ \A q \in QueryVals : QueryTrace(Map', q) = QueryTrace(Map, q)]_vars

\* ---- C5 ----
\* C5: insert is invisible until rebuild.  An insert by thread tid changes
\* only shard tid of parallel_rebuilding_data; hashes, indices, prefix_index
\* and the other shards keep their values, and so does every query trace.
C5_InsertInvisible ==
    [][\A tid \in 0..(MaxThreads - 1), h \in HashVals :
        Insert(tid, h) =>
            /\ hashes' = hashes
            /\ indices' = indices
            /\ prefix_index' = prefix_index
            /\ \A t \in 1..MaxThreads :
                   t # tid + 1 => parallel_rebuilding_data'[t] = parallel_rebuilding_data[t]
            /\ parallel_rebuilding_data'[tid + 1]
                   = Append(parallel_rebuilding_data[tid + 1], <<Len(inserted), h>>)
            /\ \A q \in QueryVals : QueryTrace(Map', q) = QueryTrace(Map, q)]_vars

\* C5 witness: a map that holds entries has answered a query for a hash that
\* is pending in a shard and not stored yet.
C5_Witness ==
    /\ PendingCount > 0
    /\ RealPositions(hashes) # {}
    /\ query # <<>>
    /\ returned # <<>>
    /\ \E i \in 1..Len(Gathered(parallel_rebuilding_data)) :
           Gathered(parallel_rebuilding_data)[i][2] = query[1].hash
    /\ \A p \in RealPositions(hashes) : At(hashes, p) # query[1].hash

\* ---- C6 ----
\* the VectorIds inserted so far
InsertedIds == 0..(Len(inserted) - 1)

\* every inserted VectorId sits at exactly one position between the pads,
\* next to the hash it was inserted with, and nothing else sits there
ExactlyOnce ==
    /\ \A v \in InsertedIds :
           /\ Cardinality({p \in RealPositions(hashes) : At(indices, p) = v}) = 1
           /\ \A p \in RealPositions(hashes) :
                  At(indices, p) = v => At(hashes, p) = inserted[v + 1]
    /\ \A p \in RealPositions(hashes) : At(indices, p) \in InsertedIds

\* C6: exactly-once membership.  Right after every rebuild each VectorId
\* inserted so far occurs at exactly one non-padding position of indices[],
\* paired with its hash, and no shard holds a pair any more.
C6_ExactlyOnce ==
    [][Rebuild => (ExactlyOnce' /\ PendingCount' = 0)]_vars

\* C6 witness: all MaxN vectors are stored and the map was rebuilt again after
\* it held entries (the last rebuild took in fewer pairs than are stored).
C6_Witness ==
    /\ PendingCount = 0
    /\ Len(inserted) = MaxN
    /\ Cardinality(RealPositions(hashes)) = MaxN
    /\ prefix_index[2 ^ PREFIX_INDEX_BITS] < SEGMENT_SIZE + MaxN
    /\ prefix_index[2 ^ PREFIX_INDEX_BITS] > SEGMENT_SIZE

\* ---- C7 ----
\* C7: sorted with pads.  hashes[] and indices[] have N + 2*SEGMENT_SIZE
\* entries for the N pairs rebuilt so far; the first and the last SEGMENT_SIZE
\* hashes are IMPOSSIBLE_PREFIX with index 0; the hashes between are in
\* non-decreasing order.
C7_SortedWithPads ==
    LET n == Len(inserted) - PendingCount
    IN  /\ Len(hashes) = n + 2 * SEGMENT_SIZE
        /\ Len(indices) = Len(hashes)
        /\ \A p \in (0..(SEGMENT_SIZE - 1)) \cup ((SEGMENT_SIZE + n)..(Len(hashes) - 1)) :
               At(hashes, p) = IMPOSSIBLE_PREFIX /\ At(indices, p) = 0
        /\ \A p \in RealPositions(hashes) :
               p + 1 \in RealPositions(hashes) => At(hashes, p) <= At(hashes, p + 1)

\* C7 witness: a rebuilt map whose pairs arrived out of hash order.
C7_Witness ==
    /\ PendingCount = 0
    /\ Len(inserted) >= 3
    /\ inserted[1] > inserted[2]
    /\ inserted[2] > inserted[3]

\* ---- C8 ----
\* the top PREFIX_INDEX_BITS bits of the code at position p
TopBits(hs, p, hlen) == ShiftRight(At(hs, p), hlen - PREFIX_INDEX_BITS)

\* the smallest position from SEGMENT_SIZE on whose top bits are at least prefix
FirstAtLeast(hs, prefix, hlen) ==
    CHOOSE i \in SEGMENT_SIZE..(Len(hs) - 1) :
        /\ TopBits(hs, i, hlen) >= prefix
        /\ \A j \in SEGMENT_SIZE..(i - 1) : TopBits(hs, j, hlen) < prefix

\* C8: prefix_index exactness.  For every prefix p, prefix_index[p] is the
\* smallest position i >= SEGMENT_SIZE with hashes[i] >> (hash_length -
\* PREFIX_INDEX_BITS) >= p; prefix_index is non-decreasing; its last entry is
\* the position of the first right-padding entry.
C8_PrefixIndexExact ==
    /\ \A p \in 0..(2 ^ PREFIX_INDEX_BITS - 1) :
           prefix_index[p] = FirstAtLeast(hashes, p, hash_length)
    /\ \A p \in 0..(2 ^ PREFIX_INDEX_BITS - 1) : prefix_index[p] <= prefix_index[p + 1]
    /\ prefix_index[2 ^ PREFIX_INDEX_BITS] = Len(hashes) - SEGMENT_SIZE

\* ---- C9 ----
\* the positions of range r whose entry does not share the prefix of the query
Disagreeing(r) ==
    {p \in RangeSet(r) : ~ Agrees(hashes, p, query[1].hash, query[1].prefix_mask)}

\* C9: bounded spillover.  In the ranges of the latest get_next_range call the
\* entries that do not agree with the query hash under prefix_mask are at most
\* SEGMENT_SIZE-1 and lie at the outer end: behind every agreeing entry of the
\* right range, before every agreeing entry of the left range.
C9_BoundedSpillover ==
    (query # <<>> /\ returned # <<>>) =>
        LET c == returned[Len(returned)]
        IN  /\ Cardinality(Disagreeing(c.right)) <= SEGMENT_SIZE - 1
            /\ \A p \in Disagreeing(c.right) :
                   \A p2 \in RangeSet(c.right) : p2 > p => p2 \in Disagreeing(c.right)
            /\ Cardinality(Disagreeing(c.left)) <= SEGMENT_SIZE - 1
            /\ \A p \in Disagreeing(c.left) :
                   \A p2 \in RangeSet(c.left) : p2 < p => p2 \in Disagreeing(c.left)

\* C9 witness: the latest right range holds agreeing entries followed by
\* SEGMENT_SIZE-1 entries that do not agree.
C9_Witness ==
    /\ query # <<>>
    /\ returned # <<>>
    /\ Cardinality(Disagreeing(returned[Len(returned)].right)) = SEGMENT_SIZE - 1
    /\ RangeSet(returned[Len(returned)].right)
           \ Disagreeing(returned[Len(returned)].right) # {}

\* ---- C10 ----
\* the loaded map as the query operators read it
LoadedMap ==
    [indices |-> loaded[1].indices, hashes |-> loaded[1].hashes,
     prefix_index |-> loaded[1].prefix_index, hash_length |-> loaded[1].hash_length]

\* C10: snapshot round trip.  Whatever map was serialized, the loader
\* succeeds and its map has the same indices, hashes, hash_length,
\* prefix_index and pending pairs, and gives the same query traces.
C10_SnapshotRoundTrip ==
    loaded # <<>> =>
        /\ loaded[1].outcome = "loaded"
        /\ loaded[1].indices = indices
        /\ loaded[1].hashes = hashes
        /\ loaded[1].hash_length = hash_length
        /\ loaded[1].prefix_index = prefix_index
        /\ Gathered(loaded[1].parallel_rebuilding_data) = Gathered(parallel_rebuilding_data)
        /\ \A q \in QueryVals : QueryTrace(LoadedMap, q) = QueryTrace(Map, q)

(***************************************************************************)
(* L2HashFunction (puffinn/hash/L2hash.hpp).  The floats r and b and the   *)
(* vector components are small non-negative integers, so that every bucket *)
(* computation is defined.                                                 *)
(***************************************************************************)
MaxDims == 2             \* most dimensions of a stored vector

\* L2Hash::sample, line 105: float r_tmp = 4.0
r_tmp == 4

\* the offsets b that sample() draws, and the components of a vector
BVals == {1, 2, 6}
CompVals == {0, 1, 2}

\* the stored vectors of the given number of dimensions
Vectors(dims) == [1..dims -> CompVals]

\* math.hpp dot_product
RECURSIVE dot_product(_, _, _)
dot_product(a, b, dims) ==
    IF dims = 0 THEN 0 ELSE a[dims] * b[dims] + dot_product(a, b, dims - 1)

\* lines 17-27: the constructor, with the random vector it stores
L2HashFunction(hash_vec, dims, bits, r, b) ==
    [hash_vec |-> hash_vec, dimensions |-> dims, bits |-> bits,
     r |-> r, b |-> b, ub |-> 2 ^ bits - 1]

\* lines 41-51: the values in the order serialize writes them
L2Serialized(f) == <<f.dimensions, f.bits, f.ub, f.b, f.r, f.hash_vec>>

\* lines 29-39: each field takes the value at the place the constructor reads it
L2Deserialized(bytes) ==
    [dimensions |-> bytes[1], bits |-> bytes[2], ub |-> bytes[3],
     r |-> bytes[4], b |-> bytes[5], hash_vec |-> bytes[6]]

\* lines 54-58: operator(), the bucket of a vector
L2Bucket(f, vec) ==
    LET dot    == dot_product(f.hash_vec, vec, f.dimensions)
        bucket == (dot + f.b) \div f.r
    IN  IF bucket > f.ub THEN f.ub ELSE bucket

\* the variables an L2HashFunction never touches
notL2Vars == <<mapVars, query, returned, inserted, stream, loaded,
               todo, queries, pool, store, capi>>

L2Init ==
    /\ LET r == RebuildResult(<<>>, <<>>, <<>>, MAX_HASHBITS)
       IN  /\ indices = r.indices
           /\ hashes = r.hashes
           /\ prefix_index = r.prefix_index
    /\ parallel_rebuilding_data = [t \in 1..MaxThreads |-> <<>>]
    /\ hash_length = MAX_HASHBITS
    /\ query = <<>> /\ returned = <<>> /\ inserted = <<>>
    /\ stream = <<>> /\ loaded = <<>>
    /\ todo = <<>> /\ queries = <<>> /\ pool = <<>> /\ store = <<>> /\ capi = <<>>
    /\ l2 = [fn |-> <<>>, bytes |-> <<>>, loaded |-> <<>>]

\* L2Hash::sample(): a function over dims dimensions
L2Sample(dims, hash_vec, b) ==
    /\ l2.fn = <<>>
    /\ l2' = [l2 EXCEPT !.fn = <<L2HashFunction(hash_vec, dims, BITS_PER_FUNCTION, r_tmp, b)>>]
    /\ UNCHANGED notL2Vars

\* serialize(out)
L2Serialize ==
    /\ l2.fn # <<>>
    /\ l2.bytes = <<>>
    /\ l2.loaded = <<>>
    /\ l2' = [l2 EXCEPT !.bytes = <<L2Serialized(l2.fn[1])>>]
    /\ UNCHANGED notL2Vars

\* L2HashFunction(in) on the bytes just written
L2Deserialize ==
    /\ l2.bytes # <<>>
    /\ l2' = [l2 EXCEPT !.bytes = <<>>, !.loaded = <<L2Deserialized(l2.bytes[1])>>]
    /\ UNCHANGED notL2Vars

\* both functions are destroyed
L2Drop ==
    /\ l2.loaded # <<>>
    /\ l2' = [fn |-> <<>>, bytes |-> <<>>, loaded |-> <<>>]
    /\ UNCHANGED notL2Vars

L2Next ==
    \/ \E dims \in 1..MaxDims : \E hash_vec \in Vectors(dims), b \in BVals :
           L2Sample(dims, hash_vec, b)
    \/ L2Serialize
    \/ L2Deserialize
    \/ L2Drop

SpecL2 == L2Init /\ [][L2Next]_vars

\* ---- C11 ----
\* C11: L2 hash function round trip.  The loaded function has the dimensions,
\* bits, ub, r and b of the function that was serialized, and puts every
\* vector in the same bucket.
C11_L2RoundTrip ==
    l2.loaded # <<>> =>
        LET f == l2.fn[1]
            g == l2.loaded[1]
        IN  /\ g.dimensions = f.dimensions
            /\ g.bits = f.bits
            /\ g.ub = f.ub
            /\ g.r = f.r
            /\ g.b = f.b
            /\ g.hash_vec = f.hash_vec
            /\ \A vec \in Vectors(f.dimensions) : L2Bucket(g, vec) = L2Bucket(f, vec)

\* ------------------------------------------------------------------
\* The C interface (c_api/c_binder.cpp)
\* ------------------------------------------------------------------

MaxHandles == 2          \* most index handles alive at once
MaxPoints == 1           \* most points inserted through one handle

\* c_binder.h, line 8: the all-ones 32-bit word, in the model's word width
EMPTY_RESULT_SENTINEL == WordMod - 1

\* tags a caller may pass to CPUFFINN_index_create
Tags == {"angular", "jaccard", "euclidean", "hamming"}

\* the null pointer, as a handle and as a buffer
NullHandle == 0

\* a prefix map in its constructed state with no query, used by the
\* components that do not touch it
IdleMap ==
    /\ LET r == RebuildResult(<<>>, <<>>, <<>>, MAX_HASHBITS)
       IN  /\ indices = r.indices
           /\ hashes = r.hashes
           /\ prefix_index = r.prefix_index
    /\ parallel_rebuilding_data = [t \in 1..MaxThreads |-> <<>>]
    /\ hash_length = MAX_HASHBITS
    /\ query = <<>> /\ returned = <<>> /\ inserted = <<>>
    /\ stream = <<>> /\ loaded = <<>>

\* CPUFFINN_index_create with every tag but "hamming" building a
\* cosine index
index_createAnyTag(dataset_type) ==
    IF dataset_type = "euclidean" THEN "l2"
    ELSE IF dataset_type = "hamming" THEN "null"
    ELSE "cosine"

\* CPUFFINN_index_create: the index type built for a tag, "null" when the
\* function returns nullptr
index_create(dataset_type) ==
    IF dataset_type = "angular" THEN "cosine"
    ELSE IF dataset_type = "euclidean" THEN "l2"
    ELSE "null"

\* an index behind a handle: its real type, the points inserted and the
\* points taken in by the last rebuild
NewIndex(kind) == [kind |-> kind, n |-> 0, built |-> 0]

\* what a call did: the entry point, its argument, how control came back
\* to the caller ("returned" or "exception"), the value returned, the
\* index type the entry point cast the handle to, and the handle
Call(entry, arg, outcome, value, treated_as, handle) ==
    [entry |-> entry, arg |-> arg, outcome |-> outcome, value |-> value,
     treated_as |-> treated_as, handle |-> handle]

\* the buffer CPUFFINN_search_* returns for a result list: malloc of
\* result.size() words holding a copy of the list.  With an empty list
\* malloc(0) gives a null pointer or a block of no words; the word a caller
\* finds at position 0 is then not written by the function.
SearchBuffers(result) ==
    IF result = <<>>
    THEN {[null |-> TRUE, written |-> <<>>, first |-> 0]}
         \cup {[null |-> FALSE, written |-> <<>>, first |-> w] :
                  w \in {0, 1, EMPTY_RESULT_SENTINEL}}
    ELSE {[null |-> FALSE, written |-> result, first |-> result[1]]}

\* Index::search: at most built ids of points taken in by a rebuild
SearchResults(built) == {[i \in 1..m |-> i - 1] : m \in 0..built}

notCApiVars == <<mapVars, query, returned, inserted, stream, loaded,
                 todo, queries, l2, pool, store>>

CApiInit ==
    /\ IdleMap
    /\ todo = <<>> /\ queries = <<>> /\ l2 = <<>> /\ pool = <<>> /\ store = <<>>
    /\ capi = [handles |-> <<>>, last |-> <<>>]

\* CPUFFINN_index_create(dataset_type, dataset_args, memory_limit)
CApiCreate(dataset_type) ==
    /\ capi # <<>>
    /\ LET kind == index_create(dataset_type)
       IN  IF kind = "null"
           THEN capi' = [capi EXCEPT !.last =
                    <<Call("index_create", dataset_type, "returned",
                           NullHandle, "none", NullHandle)>>]
           ELSE /\ Len(capi.handles) < MaxHandles
                /\ capi' = [handles |-> Append(capi.handles, NewIndex(kind)),
                            last |-> <<Call("index_create", dataset_type,
                                            "returned", Len(capi.handles) + 1,
                                            kind, Len(capi.handles) + 1)>>]
    /\ UNCHANGED notCApiVars

\* CPUFFINN_load_from_file(file_name, dataset_name): source tells whether
\* the file opens, the dataset opens and the snapshot's hash source tag is
\* known
CApiLoad(source) ==
    /\ capi # <<>>
    /\ IF source \in {"nofile", "nodataset", "corrupt"}
       THEN capi' = [capi EXCEPT !.last =
                <<Call("load_from_file", source, "exception",
                       NullHandle, "cosine", NullHandle)>>]
       ELSE /\ Len(capi.handles) < MaxHandles
            /\ capi' = [handles |-> Append(capi.handles, NewIndex("cosine")),
                        last |-> <<Call("load_from_file", source, "returned",
                                        Len(capi.handles) + 1, "cosine",
                                        Len(capi.handles) + 1)>>]
    /\ UNCHANGED notCApiVars

\* CPUFFINN_index_rebuild(index): 0 on success, 1 when the rebuild throws
CApiRebuild(h, fails) ==
    /\ capi # <<>>
    /\ h \in 1..Len(capi.handles)
    /\ capi' = [handles |-> IF fails THEN capi.handles
                            ELSE [capi.handles EXCEPT ![h].built = capi.handles[h].n],
                last |-> <<Call("index_rebuild", fails, "returned",
                                IF fails THEN 1 ELSE 0, "cosine", h)>>]
    /\ UNCHANGED notCApiVars

\* CPUFFINN_index_insert_cosine / CPUFFINN_index_insert_l2(index, point,
\* dimension): the index rejects a point of the wrong dimension by throwing
CApiInsert(sim, h, dimension_ok) ==
    /\ capi # <<>>
    /\ h \in 1..Len(capi.handles)
    /\ IF dimension_ok
       THEN /\ capi.handles[h].n < MaxPoints
            /\ capi' = [handles |-> [capi.handles EXCEPT ![h].n = @ + 1],
                        last |-> <<Call("index_insert", dimension_ok,
                                        "returned", 0, sim, h)>>]
       ELSE capi' = [capi EXCEPT !.last =
                <<Call("index_insert", dimension_ok, "exception", 0, sim, h)>>]
    /\ UNCHANGED notCApiVars

\* CPUFFINN_search_cosine / CPUFFINN_search_l2(index, query, k, recall,
\* max_sim, dimension)
CApiSearch(sim, h, dimension_ok, result, buffer) ==
    /\ capi # <<>>
    /\ h \in 1..Len(capi.handles)
    /\ IF dimension_ok
       THEN /\ result \in SearchResults(capi.handles[h].built)
            /\ buffer \in SearchBuffers(result)
            /\ capi' = [capi EXCEPT !.last =
                   <<Call("search", result, "returned", buffer, sim, h)>>]
       ELSE /\ result = <<>>
            /\ buffer = [null |-> TRUE, written |-> <<>>, first |-> 0]
            /\ capi' = [capi EXCEPT !.last =
                   <<Call("search", result, "exception", buffer, sim, h)>>]
    /\ UNCHANGED notCApiVars

\* CPUFFINN_save_index(index, file_name, index_id): returns without
\* writing when the file does not open
CApiSave(h, file_ok) ==
    /\ capi # <<>>
    /\ h \in 1..Len(capi.handles)
    /\ capi' = [capi EXCEPT !.last =
           <<Call("save_index", file_ok, "returned", 0, "cosine", h)>>]
    /\ UNCHANGED notCApiVars

AllBuffers ==
    UNION {SearchBuffers(r) : r \in SearchResults(MaxPoints)}

CApiNext ==
    \/ \E dataset_type \in Tags : CApiCreate(dataset_type)
    \/ \E source \in {"nofile", "nodataset", "corrupt", "snapshot"} :
          CApiLoad(source)
    \/ \E h \in 1..MaxHandles, fails \in BOOLEAN : CApiRebuild(h, fails)
    \/ \E sim \in {"cosine", "l2"}, h \in 1..MaxHandles,
          dimension_ok \in BOOLEAN : CApiInsert(sim, h, dimension_ok)
    \/ \E sim \in {"cosine", "l2"}, h \in 1..MaxHandles,
          dimension_ok \in BOOLEAN,
          result \in SearchResults(MaxPoints), buffer \in AllBuffers :
          CApiSearch(sim, h, dimension_ok, result, buffer)
    \/ \E h \in 1..MaxHandles, file_ok \in BOOLEAN : CApiSave(h, file_ok)

SpecCApi == CApiInit /\ [][CApiNext]_vars

LastCall == capi.last[1]

\* ---- C12 ----
\* As stated: CPUFFINN_index_create returns a null handle exactly when the
\* tag is not one of "angular", "jaccard", "euclidean", and a non-null
\* handle for each of the three.
C12_CreateThreeTags ==
    (capi.last # <<>> /\ LastCall.entry = "index_create") =>
        (LastCall.value = NullHandle
            <=> LastCall.arg \notin {"angular", "jaccard", "euclidean"})

\* C12, amended: CPUFFINN_index_create returns a null handle exactly when
\* the tag is neither "angular" nor "euclidean" (so "jaccard" gives null);
\* "angular" gives a handle to a cosine index and "euclidean" one to an L2
\* index.
C12_CreateTwoTags ==
    (capi.last # <<>> /\ LastCall.entry = "index_create") =>
        /\ LastCall.value = NullHandle
              <=> LastCall.arg \notin {"angular", "euclidean"}
        /\ LastCall.value # NullHandle =>
              /\ LastCall.value \in 1..Len(capi.handles)
              /\ capi.handles[LastCall.value].kind =
                    (IF LastCall.arg = "angular" THEN "cosine" ELSE "l2")

\* a create with tag "jaccard" returned null after a create that gave a
\* handle
C12_Witness ==
    /\ capi.last # <<>>
    /\ LastCall.entry = "index_create"
    /\ LastCall.arg = "jaccard"
    /\ LastCall.value = NullHandle
    /\ Len(capi.handles) > 0

\* ---- C13 ----
\* No exception crosses the C boundary: every entry point, on any failure
\* of the underlying operation (file or dataset that does not open,
\* dimension mismatch on insert or query, corrupt snapshot tag), comes back
\* to the caller with a result or a failure sentinel, never with an
\* exception.
C13_NoExceptionCrosses ==
    capi.last # <<>> => LastCall.outcome = "returned"

\* ---- C14 ----
\* When the underlying search yields an empty result list,
\* CPUFFINN_search_cosine / CPUFFINN_search_l2 return a buffer holding the
\* empty-result sentinel 0xFFFFFFFF.
C14_EmptyResultSentinel ==
    (/\ capi.last # <<>>
     /\ LastCall.entry = "search"
     /\ LastCall.outcome = "returned"
     /\ LastCall.arg = <<>>) =>
        /\ ~LastCall.value.null
        /\ LastCall.value.written = <<EMPTY_RESULT_SENTINEL>>

\* ------------------------------------------------------------------
\* HashPool (hash_source/pool.hpp)
\* ------------------------------------------------------------------

\* word widths of the code types: LshDatatype (index codes) and
\* SketchDataType (sketches), the wider word
PoolWidths == {WordBits, WordBits + MAX_HASHBITS}

\* bits_per_function of the hash family
PoolBitsPerFunction == {BITS_PER_FUNCTION, BITS_PER_FUNCTION + 1}

\* bits_per_hasher for a code type of w bits
PoolLens(w) == {1, 3, MAX_HASHBITS, w}

\* num_functions handed to the constructor
PoolFunctionCounts(bpf) == {bpf, 2 * bpf + 1}

\* num_tables
PoolTables == {1, 2}

\* values a hash function of the pool may give: below 2^bits_per_function
SubHashVals(bpf) == {0, 1, 2 ^ bpf - 1}

RECURSIVE BitOr(_, _)
BitOr(a, b) ==
    IF a = 0 THEN b
    ELSE IF b = 0 THEN a
    ELSE 2 * BitOr(a \div 2, b \div 2) + Max(a % 2, b % 2)

\* HammingType<dataType>::concatenate_hash on a value of w bits
concatenate_hash(value, hash, bits_per_func, w) ==
    BitOr((value * 2 ^ bits_per_func) % 2 ^ w, hash % 2 ^ w)

\* the loop of hash_repetitions over indices[rep], from res = 0
RECURSIVE ConcatenateAll(_, _, _, _, _)
ConcatenateAll(res, rep_indices, values, bits_per_func, w) ==
    IF rep_indices = <<>> THEN res
    ELSE ConcatenateAll(
             concatenate_hash(res, At(values, Head(rep_indices)),
                              bits_per_func, w),
             Tail(rep_indices), values, bits_per_func, w)

\* the number of indices the constructor draws for one repetition:
\* for (i = 0; i < bits_per_hasher; i += bits_per_function)
RepLen(bits_per_hasher, bits_per_function) ==
    (bits_per_hasher + bits_per_function - 1) \div bits_per_function

\* HashPool::HashPool(desc, args, num_functions, num_tables, bits_per_hasher)
\* with the indices the random generator drew
HashPool(w, bits_per_function, bits_per_hasher, num_functions, num_tables, idx) ==
    [width |-> w,
     bits_per_function |-> bits_per_function,
     bits_per_hasher |-> bits_per_hasher,
     num_functions |-> num_functions \div bits_per_function,
     num_tables |-> num_tables,
     indices |-> idx,
     bits_to_cut |-> bits_per_function * Len(idx[1]) - bits_per_hasher]

\* hash_repetitions without the final shift
hash_repetitionsUncut(p, values) ==
    [rep \in 1..p.num_tables |->
        ConcatenateAll(0, p.indices[rep], values, p.bits_per_function,
                       p.width)]

\* HashPool::hash_repetitions(input, output): values are the results of
\* the pool's functions on the input
hash_repetitions(p, values) ==
    [rep \in 1..p.num_tables |->
        ConcatenateAll(0, p.indices[rep], values, p.bits_per_function,
                       p.width) \div 2 ^ p.bits_to_cut]

notPoolVars == <<mapVars, query, returned, inserted, stream, loaded,
                 todo, queries, l2, store, capi>>

PoolInit ==
    /\ IdleMap
    /\ todo = <<>> /\ queries = <<>> /\ l2 = <<>> /\ store = <<>> /\ capi = <<>>
    /\ pool = [p |-> <<>>, output |-> <<>>]

\* construction, with the parameters and the drawn indices as inputs
PoolConstruct ==
    /\ pool # <<>>
    /\ pool.p = <<>>
    /\ \E w \in PoolWidths, bpf \in PoolBitsPerFunction :
       \E L \in PoolLens(w), nf \in PoolFunctionCounts(bpf),
          nt \in PoolTables :
       \E idx \in [1..nt -> [1..RepLen(L, bpf) -> 0..(nf \div bpf - 1)]] :
          pool' = [p |-> <<HashPool(w, bpf, L, nf, nt, idx)>>,
                   output |-> <<>>]
    /\ UNCHANGED notPoolVars

\* hash_repetitions on an input point, given by the values the pool's
\* functions take on it
PoolHashRepetitions ==
    /\ pool # <<>>
    /\ pool.p # <<>>
    /\ \E values \in [1..pool.p[1].num_functions ->
                         SubHashVals(pool.p[1].bits_per_function)] :
          pool' = [pool EXCEPT
                      !.output = <<hash_repetitions(pool.p[1], values)>>]
    /\ UNCHANGED notPoolVars

PoolDrop ==
    /\ pool # <<>>
    /\ pool.output # <<>>
    /\ pool' = [p |-> <<>>, output |-> <<>>]
    /\ UNCHANGED notPoolVars

PoolNext ==
    \/ PoolConstruct
    \/ PoolHashRepetitions
    \/ PoolDrop

SpecPool == PoolInit /\ [][PoolNext]_vars

\* ---- C15 ----
\* For every input point hash_repetitions returns exactly num_tables codes,
\* each of value at most 2^L - 1 with L = bits_per_hasher, whether or not
\* bits_per_function divides L and for both word widths, the sub-hash
\* values being below 2^bits_per_function.
C15_HashCodeWidth ==
    (pool # <<>> /\ pool.output # <<>>) =>
        LET p   == pool.p[1]
            out == pool.output[1]
        IN  /\ Len(out) = p.num_tables
            /\ \A i \in 1..Len(out) :
                  out[i] >= 0 /\ out[i] <= 2 ^ p.bits_per_hasher - 1

\* codes were returned by a pool whose bits_per_function does not divide L
\* and whose concatenation is wider than the word, one code being the
\* largest the word leaves after the shift
C15_Witness ==
    /\ pool # <<>>
    /\ pool.output # <<>>
    /\ LET p == pool.p[1]
       IN  /\ p.bits_per_hasher % p.bits_per_function # 0
           /\ p.bits_per_function * Len(p.indices[1]) > p.width
           /\ p.num_tables = 2
           /\ \E i \in 1..2 :
                 pool.output[1][i] = 2 ^ (p.width - p.bits_to_cut) - 1

\* ------------------------------------------------------------------
\* RealVectorFormat::store (format/real_vector.hpp)
\* ------------------------------------------------------------------

\* contents of the destination before the call
PriorVals == {0, 7}

\* storage_len of a dataset of args dimensions: args, or args padded
StorageLens(args) == {args, args + 1}

\* inputs of every length up to one more than the most dimensions
StoreInputs == UNION {[1..n -> CompVals] : n \in 0..(MaxDims + 1)}

\* store with the length test after the copy loop
StoreResultLateCheck(input, storage, args, storage_len) ==
    IF Len(input) # args
    THEN [storage |-> [i \in 1..storage_len |->
                          IF i <= Min(args, Len(input)) THEN input[i]
                          ELSE storage[i]],
          thrown |-> TRUE]
    ELSE [storage |-> [i \in 1..storage_len |->
                          IF i <= args THEN input[i] ELSE 0],
          thrown |-> FALSE]

\* RealVectorFormat::store(input, storage, dataset): the storage after the
\* call and whether std::invalid_argument was thrown
StoreResult(input, storage, args, storage_len) ==
    IF Len(input) # args
    THEN [storage |-> storage, thrown |-> TRUE]
    ELSE [storage |-> [i \in 1..storage_len |->
                          IF i <= args THEN input[i] ELSE 0],
          thrown |-> FALSE]

notStoreVars == <<mapVars, query, returned, inserted, stream, loaded,
                  todo, queries, l2, pool, capi>>

StoreInit ==
    /\ IdleMap
    /\ todo = <<>> /\ queries = <<>> /\ l2 = <<>> /\ pool = <<>> /\ capi = <<>>
    /\ store = [alloc |-> <<>>, call |-> <<>>]

\* a destination of storage_len elements for a dataset of args dimensions
StoreAllocate ==
    /\ store # <<>>
    /\ store.alloc = <<>>
    /\ \E args \in 1..MaxDims :
       \E storage_len \in StorageLens(args) :
       \E prior \in [1..storage_len -> PriorVals] :
          store' = [alloc |-> <<[args |-> args, storage_len |-> storage_len,
                                 storage |-> prior]>>,
                    call |-> <<>>]
    /\ UNCHANGED notStoreVars

StoreCall ==
    /\ store # <<>>
    /\ store.alloc # <<>>
    /\ store.call = <<>>
    /\ \E input \in StoreInputs :
          LET a == store.alloc[1]
              r == StoreResult(input, a.storage, a.args, a.storage_len)
          IN  store' = [alloc |-> <<[a EXCEPT !.storage = r.storage]>>,
                        call |-> <<[input |-> input, thrown |-> r.thrown]>>]
    /\ UNCHANGED notStoreVars

StoreFree ==
    /\ store # <<>>
    /\ store.call # <<>>
    /\ store' = [alloc |-> <<>>, call |-> <<>>]
    /\ UNCHANGED notStoreVars

StoreNext ==
    \/ StoreAllocate
    \/ StoreCall
    \/ StoreFree

SpecStore == StoreInit /\ [][StoreNext]_vars

\* ---- C16 ----
\* store with an input whose length differs from dataset.args fails with
\* an error and writes no element of the destination; with a matching
\* length it writes the input values followed by zeros up to storage_len.
C16_StoreDimensionCheck ==
    [][(store # <<>> /\ store.alloc # <<>> /\ store.call = <<>>
        /\ store'.call # <<>>) =>
          LET a     == store.alloc[1]
              after == store'.alloc[1].storage
              c     == store'.call[1]
          IN  IF Len(c.input) # a.args
              THEN c.thrown /\ after = a.storage
              ELSE /\ ~c.thrown
                   /\ Len(after) = a.storage_len
                   /\ \A i \in 1..a.storage_len :
                         after[i] = (IF i <= a.args THEN c.input[i] ELSE 0)
      ]_vars

\* a call with a non-empty input of the wrong length was rejected and the
\* destination still holds its earlier non-zero contents
C16_Witness ==
    /\ store # <<>>
    /\ store.call # <<>>
    /\ store.call[1].thrown
    /\ store.call[1].input # <<>>
    /\ \A i \in 1..Len(store.alloc[1].storage) : store.alloc[1].storage[i] = 7

\* ------------------------------------------------------------------
\* PrefixMap::rebuild stopped by a failed allocation
\* ------------------------------------------------------------------

\* the statements of rebuild that allocate: the reserve calls of the
\* temporaries (lines 182-183), hashes.reserve (line 205) and
\* indices.reserve (line 207)
FailPoints == {"tmp_reserve", "hashes_reserve", "indices_reserve"}

\* the fields of the map when the allocation at pt throws std::bad_alloc:
\* every statement before pt has run, none after it
RebuildFailResult(idxs, hs, pidx, prd, pt) ==
    [indices |-> IF pt = "indices_reserve" THEN <<>> ELSE idxs,
     hashes |-> IF pt = "tmp_reserve" THEN hs ELSE <<>>,
     prefix_index |-> pidx,
     parallel_rebuilding_data |-> prd]

\* rebuild() leaving by an exception at pt
RebuildFail(pt) ==
    /\ NoSnapshot
    /\ query = <<>>
    /\ LET r == RebuildFailResult(indices, hashes, prefix_index,
                                  parallel_rebuilding_data, pt)
       IN  /\ indices' = r.indices
           /\ hashes' = r.hashes
           /\ prefix_index' = r.prefix_index
           /\ parallel_rebuilding_data' = r.parallel_rebuilding_data
    /\ UNCHANGED <<hash_length, query, returned, inserted, stream, loaded>>
    /\ UNCHANGED otherVars

FailNext ==
    \/ \E tid \in 0..(MaxThreads - 1), hash_value \in HashVals :
          Insert(tid, hash_value)
    \/ Rebuild
    \/ \E pt \in FailPoints : RebuildFail(pt)

SpecFail == Init /\ [][FailNext]_vars

\* ---- C17 ----
\* If rebuild fails before completing (an allocation failure while
\* reserving or filling the new arrays), hashes, indices, prefix_index and
\* the pending shards are the same as before the call.
C17_AtomicRebuild ==
    [][(\E pt \in FailPoints : RebuildFail(pt)) =>
          /\ hashes' = hashes
          /\ indices' = indices
          /\ prefix_index' = prefix_index
          /\ parallel_rebuilding_data' = parallel_rebuilding_data]_vars

\* ------------------------------------------------------------------
\* Threads inserting into their own shards, then one rebuild
\* ------------------------------------------------------------------

notShardVars == <<hash_length, query, returned, inserted, stream, loaded,
                  queries, l2, pool, store, capi>>

\* A fresh map, a dataset of hashes (VectorId v has hash data[v + 1]) and
\* the VectorIds each thread still has to insert; thread t calls insert
\* with tid = t - 1.
ShardInit ==
    /\ IdleMap
    /\ queries = <<>> /\ l2 = <<>> /\ pool = <<>> /\ store = <<>> /\ capi = <<>>
    /\ \E n \in 1..MaxN :
       \E data \in [1..n -> HashVals], owner \in [0..(n - 1) -> 1..MaxThreads] :
          todo = [data |-> data,
                  work |-> [t \in 1..MaxThreads |->
                               {v \in 0..(n - 1) : owner[v] = t}],
                  rebuilt |-> FALSE]

\* insert by thread t with every thread passing tid = 0
ShardInsertShared(t) ==
    /\ todo # <<>>
    /\ t \in 1..MaxThreads
    /\ \E v \in todo.work[t] :
          /\ LET r == InsertResult(indices, hashes, prefix_index,
                                   parallel_rebuilding_data,
                                   0, v, todo.data[v + 1])
             IN  /\ indices' = r.indices
                 /\ hashes' = r.hashes
                 /\ prefix_index' = r.prefix_index
                 /\ parallel_rebuilding_data' = r.parallel_rebuilding_data
          /\ todo' = [todo EXCEPT !.work[t] = @ \ {v}]
    /\ UNCHANGED notShardVars

\* thread t inserts one of its vectors: insert(t - 1, v, hash of v)
ShardInsert(t) ==
    /\ todo # <<>>
    /\ t \in 1..MaxThreads
    /\ \E v \in todo.work[t] :
          /\ LET r == InsertResult(indices, hashes, prefix_index,
                                   parallel_rebuilding_data,
                                   t - 1, v, todo.data[v + 1])
             IN  /\ indices' = r.indices
                 /\ hashes' = r.hashes
                 /\ prefix_index' = r.prefix_index
                 /\ parallel_rebuilding_data' = r.parallel_rebuilding_data
          /\ todo' = [todo EXCEPT !.work[t] = @ \ {v}]
    /\ UNCHANGED notShardVars

\* the single-threaded rebuild once every thread is done
ShardRebuild ==
    /\ todo # <<>>
    /\ ~todo.rebuilt
    /\ \A t \in 1..MaxThreads : todo.work[t] = {}
    /\ LET r == RebuildResult(indices, hashes, parallel_rebuilding_data,
                              hash_length)
       IN  /\ indices' = r.indices
           /\ hashes' = r.hashes
           /\ prefix_index' = r.prefix_index
           /\ parallel_rebuilding_data' = r.parallel_rebuilding_data
    /\ todo' = [todo EXCEPT !.rebuilt = TRUE]
    /\ UNCHANGED notShardVars

ShardNext ==
    \/ \E t \in 1..MaxThreads : ShardInsert(t)
    \/ ShardRebuild

SpecShard == ShardInit /\ [][ShardNext]_vars

\* an insert by thread t changes shard t only and adds one pair there
OwnShardStep(t) ==
    /\ \A u \in 1..MaxThreads :
          u # t => parallel_rebuilding_data'[u] = parallel_rebuilding_data[u]
    /\ Len(parallel_rebuilding_data'[t]) = Len(parallel_rebuilding_data[t]) + 1
    /\ hashes' = hashes
    /\ indices' = indices

\* between the pads hashes[] and indices[] hold every VectorId of the
\* dataset once with its hash, in increasing order of hash and, for equal
\* hashes, of VectorId: the one arrangement the dataset determines
ShardedArrays ==
    LET n == Len(todo.data)
    IN  /\ Len(hashes) = n + 2 * SEGMENT_SIZE
        /\ Len(indices) = Len(hashes)
        /\ \A v \in 0..(n - 1) :
              \E p \in RealPositions(hashes) :
                 At(indices, p) = v /\ At(hashes, p) = todo.data[v + 1]
        /\ \A p \in RealPositions(hashes) :
              p + 1 \in RealPositions(hashes) =>
                 \/ At(hashes, p) < At(hashes, p + 1)
                 \/ /\ At(hashes, p) = At(hashes, p + 1)
                    /\ At(indices, p) < At(indices, p + 1)
        /\ \A p \in (0..(SEGMENT_SIZE - 1))
                    \cup ((SEGMENT_SIZE + n)..(Len(hashes) - 1)) :
              At(hashes, p) = IMPOSSIBLE_PREFIX /\ At(indices, p) = 0

\* ---- C18 ----
\* Threads inserting concurrently, each with its own tid, never write the
\* same shard (an insert by thread t changes shard t only), and the
\* hashes[] and indices[] the following single-threaded rebuild produces
\* are the same for every interleaving of the inserts and every assignment
\* of the pairs to shards: the entries ordered by hash, ties by VectorId.
C18_ShardedInsert ==
    /\ []((todo # <<>> /\ todo.rebuilt) => ShardedArrays)
    /\ [][\A t \in 1..MaxThreads : ShardInsert(t) => OwnShardStep(t)]_vars

\* a rebuilt map of MaxN vectors, the first and the last vector of equal
\* hash and the second of the smallest hash
C18_Witness ==
    /\ todo # <<>>
    /\ todo.rebuilt
    /\ Len(todo.data) = MaxN
    /\ todo.data[1] = todo.data[MaxN]
    /\ todo.data[1] # todo.data[2]
    /\ At(indices, SEGMENT_SIZE) = 1

\* ------------------------------------------------------------------
\* Several queries on one rebuilt map
\* ------------------------------------------------------------------

NumQueries == 2          \* queries alive at once

\* the shards after the vectors 0..Len(data)-1 were inserted by thread 0
ShardsOf(data) ==
    [t \in 1..MaxThreads |->
        IF t = 1 THEN [v \in 1..Len(data) |-> <<v - 1, data[v]>>] ELSE <<>>]

notQueriesVars == <<mapVars, query, returned, inserted, stream, loaded,
                    todo, l2, pool, store, capi>>

\* a map built by inserting a dataset into a fresh PrefixMap and
\* rebuilding, and no query yet
QueriesInit ==
    /\ \E n \in 0..MaxN :
       \E data \in [1..n -> HashVals] :
          LET fresh == RebuildResult(<<>>, <<>>, <<>>, MAX_HASHBITS)
              r     == RebuildResult(fresh.indices, fresh.hashes,
                                     ShardsOf(data), MAX_HASHBITS)
          IN  /\ indices = r.indices
              /\ hashes = r.hashes
              /\ prefix_index = r.prefix_index
              /\ parallel_rebuilding_data = r.parallel_rebuilding_data
              /\ inserted = data
    /\ hash_length = MAX_HASHBITS
    /\ query = <<>> /\ returned = <<>>
    /\ stream = <<>> /\ loaded = <<>>
    /\ todo = <<>> /\ l2 = <<>> /\ pool = <<>> /\ store = <<>> /\ capi = <<>>
    /\ queries = [i \in 1..NumQueries |-> [q |-> <<>>, returned |-> <<>>]]

\* caller i builds its query: create_query(hash)
QCreate(i, hash) ==
    /\ queries # <<>>
    /\ queries[i].q = <<>>
    /\ queries' = [queries EXCEPT
                      ![i] = [q |-> <<create_query(Map, hash)>>,
                              returned |-> <<>>]]
    /\ UNCHANGED notQueriesVars

\* get_next_range with the prefix mask held once for all callers
QGetNextRangeShared(i) ==
    /\ queries # <<>>
    /\ queries[i].q # <<>>
    /\ Len(queries[i].returned) < MaxCalls
    /\ LET r == get_next_range(Map, queries[i].q[1])
       IN  queries' = [j \in 1..NumQueries |->
              IF j = i
              THEN [q |-> <<r.query>>,
                    returned |-> Append(queries[i].returned,
                                        [left |-> r.left, right |-> r.right])]
              ELSE IF queries[j].q = <<>> THEN queries[j]
              ELSE [queries[j] EXCEPT
                       !.q = <<[queries[j].q[1] EXCEPT
                                   !.prefix_mask = r.query.prefix_mask]>>]]
    /\ UNCHANGED notQueriesVars

\* caller i calls get_next_range(query) on its own query
QGetNextRange(i) ==
    /\ queries # <<>>
    /\ queries[i].q # <<>>
    /\ Len(queries[i].returned) < MaxCalls
    /\ LET r == get_next_range(Map, queries[i].q[1])
       IN  queries' = [queries EXCEPT
              ![i] = [q |-> <<r.query>>,
                      returned |-> Append(queries[i].returned,
                                          [left |-> r.left, right |-> r.right])]]
    /\ UNCHANGED notQueriesVars

\* caller i drops its query
QEnd(i) ==
    /\ queries # <<>>
    /\ queries[i].q # <<>>
    /\ queries' = [queries EXCEPT ![i] = [q |-> <<>>, returned |-> <<>>]]
    /\ UNCHANGED notQueriesVars

QueriesNext ==
    \/ \E i \in 1..NumQueries, hash \in QueryVals : QCreate(i, hash)
    \/ \E i \in 1..NumQueries : QGetNextRange(i)
    \/ \E i \in 1..NumQueries : QEnd(i)

SpecQueries == QueriesInit /\ [][QueriesNext]_vars

\* the query of caller i and the ranges it got are those of a caller
\* running alone on the map: create_query and then as many get_next_range
\* calls
SameAsAlone(i) ==
    LET alone == QueryTrace(Map, queries[i].q[1].hash)
        k     == Len(queries[i].returned)
    IN  /\ queries[i].returned = SubSeq(alone.ranges, 1, k)
        /\ queries[i].q[1].hash = alone.created.hash
        /\ queries[i].q[1].prefix_start = alone.created.prefix_start
        /\ queries[i].q[1].prefix_end = alone.created.prefix_end

\* the step changed nothing of the map and no query but that of caller i
OnlyQuery(i) ==
    /\ hashes' = hashes
    /\ indices' = indices
    /\ prefix_index' = prefix_index
    /\ parallel_rebuilding_data' = parallel_rebuilding_data
    /\ \A j \in 1..NumQueries : j # i => queries'[j] = queries[j]

\* ---- C19 ----
\* create_query and get_next_range change only the caller's PrefixMapQuery
\* and leave hashes, indices, prefix_index and the pending shards
\* unchanged; for any interleaving of the get_next_range calls of several
\* queries on the same rebuilt map each query receives the ranges it
\* receives when it runs alone.
C19_QueriesDoNotMutate ==
    /\ [](queries # <<>> =>
            \A i \in 1..NumQueries : queries[i].q # <<>> => SameAsAlone(i))
    /\ [][\A i \in 1..NumQueries :
            ((\E hash \in QueryVals : QCreate(i, hash)) \/ QGetNextRange(i))
                => OnlyQuery(i)]_vars

\* two queries for different hashes are alive on a map of MaxN entries,
\* one after all its calls and one after its first, both having got a
\* non-empty range
C19_Witness ==
    /\ queries # <<>>
    /\ Len(inserted) = MaxN
    /\ queries[1].q # <<>> /\ queries[2].q # <<>>
    /\ queries[1].q[1].hash # queries[2].q[1].hash
    /\ Len(queries[1].returned) = MaxCalls
    /\ Len(queries[2].returned) = 1
    /\ \E k \in 1..MaxCalls : CallPositions(queries[1].returned[k]) # {}
    /\ CallPositions(queries[2].returned[1]) # {}

\* ------------------------------------------------------------------
\* create_query on a map rebuilt once
\* ------------------------------------------------------------------

\* every code of hash_length bits
AllCodes == 0..(2 ^ MAX_HASHBITS - 1)

\* most vectors of a dataset here: enough for buckets of several sizes
MaxBuilt == MaxN + 2

\* a dataset inserted into a freshly constructed PrefixMap, then one
\* rebuild, and no query yet
CreateInit ==
    /\ \E n \in 0..MaxBuilt :
       \E data \in [1..n -> HashVals] :
          LET fresh == RebuildResult(<<>>, <<>>, <<>>, MAX_HASHBITS)
              r     == RebuildResult(fresh.indices, fresh.hashes,
                                     ShardsOf(data), MAX_HASHBITS)
          IN  /\ indices = r.indices
              /\ hashes = r.hashes
              /\ prefix_index = r.prefix_index
              /\ parallel_rebuilding_data = r.parallel_rebuilding_data
              /\ inserted = data
    /\ hash_length = MAX_HASHBITS
    /\ query = <<>> /\ returned = <<>>
    /\ stream = <<>> /\ loaded = <<>>
    /\ OtherIdle

CreateNext ==
    \/ \E hash \in AllCodes : CreateQuery(hash)
    \/ EndQuery

SpecCreate == CreateInit /\ [][CreateNext]_vars

\* the smallest position i in [SEGMENT_SIZE, len - SEGMENT_SIZE] with
\* hashes[i] >= q
LowerBound(hs, q) ==
    CHOOSE i \in SEGMENT_SIZE..(Len(hs) - SEGMENT_SIZE) :
        /\ At(hs, i) >= q
        /\ \A j \in SEGMENT_SIZE..(i - 1) : At(hs, j) < q

\* ---- C20 ----
\* For a map produced by one rebuild of a freshly constructed PrefixMap and
\* any L-bit query hash q, create_query(q) yields prefix_mask =
\* IMPOSSIBLE_PREFIX and prefix_start = prefix_end = the smallest position
\* i in [SEGMENT_SIZE, len - SEGMENT_SIZE] with hashes[i] >= q.
C20_CreateQueryLowerBound ==
    query # <<>> =>
        /\ query[1].prefix_mask = IMPOSSIBLE_PREFIX
        /\ query[1].prefix_start = LowerBound(hashes, query[1].hash)
        /\ query[1].prefix_end = query[1].prefix_start

\* a query was created whose insertion point lies strictly inside a bucket
\* of at least four entries, the halving search having moved off the hint
C20_Witness ==
    /\ query # <<>>
    /\ LET prefix == ShiftRight(query[1].hash, hash_length - PREFIX_INDEX_BITS)
       IN  /\ prefix_index[prefix + 1] - prefix_index[prefix] >= 4
           /\ prefix_index[prefix] < query[1].prefix_start
           /\ query[1].prefix_start < prefix_index[prefix + 1]

\* ------------------------------------------------------------------
\* The right range, the reads of hashes[] and the prefix mask
\* ------------------------------------------------------------------

\* ---- C21 ----
\* Rightward expansion is complete: after a get_next_range call the right
\* range holds every real entry at a position >= the query's prefix_end
\* whose hash agrees with the query hash under the new prefix_mask; the
\* clamp at the right padding takes away sentinel entries only.
C21_RightExpansionComplete ==
    [][GetNextRange =>
        \A p \in RealPositions(hashes) :
            (p >= query[1].prefix_end
             /\ Agrees(hashes, p, query[1].hash, query'[1].prefix_mask))
            => p \in RangeSet(returned'[Len(returned')].right)]_vars

\* ---- the positions of hashes[] a query reads ----

\* the shards after the vectors base..base+Len(data)-1 were inserted by
\* thread 0
ShardsFrom(data, base) ==
    [t \in 1..MaxThreads |->
        IF t = 1 THEN [v \in 1..Len(data) |-> <<base + v - 1, data[v]>>]
        ELSE <<>>]

\* lines 52-57: the positions the halving search reads; a position outside
\* the array ends the list
RECURSIVE HalvingReads(_, _, _, _)
HalvingReads(hs, hash, prefix_start, half) ==
    IF half = 0 THEN {}
    ELSE LET h2  == half \div 2
             mid == prefix_start + h2
         IN  IF mid < 0 \/ mid >= Len(hs) THEN {mid}
             ELSE {mid} \cup
                  HalvingReads(hs, hash,
                               IF At(hs, mid) < hash THEN mid + 1
                               ELSE prefix_start,
                               h2)

\* the positions create_query(hash) reads on map m
CreateReads(m, hash) ==
    LET prefix == ShiftRight(hash, m.hash_length - PREFIX_INDEX_BITS)
    IN  HalvingReads(m.hashes, hash, m.prefix_index[prefix],
                     m.prefix_index[prefix + 1] - m.prefix_index[prefix])

\* lines 276-278: the positions the right loop probes, in order; the last
\* one is where it stops, a position outside the array ends the list
RECURSIVE RightProbes(_, _, _, _)
RightProbes(hs, hash_code_prefix, mask, next_idx_right) ==
    IF next_idx_right < 0 \/ next_idx_right >= Len(hs) THEN <<next_idx_right>>
    ELSE IF prefix_eq(hash_code_prefix, At(hs, next_idx_right), mask)
    THEN <<next_idx_right>>
         \o RightProbes(hs, hash_code_prefix, mask,
                        next_idx_right + SEGMENT_SIZE)
    ELSE <<next_idx_right>>

\* one get_next_range call on query: the positions of hashes[] both loops
\* read, and whether both loops come to an end.  The left loop tests
\* hashes[next_idx_right] on every round (line 289), so it ends only if
\* that entry does not share the prefix.
Scan(m, qu) ==
    LET mask             == pop_hash(qu.prefix_mask, BITS_PER_FUNCTION)
        hash_code_prefix == BitAnd(qu.hash, mask)
        probes           == RightProbes(m.hashes, hash_code_prefix, mask,
                                        qu.prefix_end)
        next_idx_right   == probes[Len(probes)]
        inside           == next_idx_right >= 0
                            /\ next_idx_right < Len(m.hashes)
    IN  [reads |-> {probes[i] : i \in 1..Len(probes)},
         terminates |->
             inside /\ ~prefix_eq(hash_code_prefix,
                                  At(m.hashes, next_idx_right), mask)]

\* most vectors of a map here
MaxScanned == MaxN + 1

\* a map rebuilt twice: a first batch of vectors inserted into a fresh
\* PrefixMap and rebuilt, then a second batch and a second rebuild (either
\* batch may be empty), and no query yet
ScanInit ==
    /\ \E n1 \in 0..MaxScanned :
       \E n2 \in 0..(MaxScanned - n1) :
       \E first \in [1..n1 -> HashVals], second \in [1..n2 -> HashVals] :
          LET fresh == RebuildResult(<<>>, <<>>, <<>>, MAX_HASHBITS)
              r1    == RebuildResult(fresh.indices, fresh.hashes,
                                     ShardsFrom(first, 0), MAX_HASHBITS)
              r2    == RebuildResult(r1.indices, r1.hashes,
                                     ShardsFrom(second, n1), MAX_HASHBITS)
          IN  /\ indices = r2.indices
              /\ hashes = r2.hashes
              /\ prefix_index = r2.prefix_index
              /\ parallel_rebuilding_data = r2.parallel_rebuilding_data
              /\ inserted = first \o second
    /\ hash_length = MAX_HASHBITS
    /\ query = <<>> /\ returned = <<>>
    /\ stream = <<>> /\ loaded = <<>>
    /\ OtherIdle

ScanNext ==
    \/ \E hash \in AllCodes : CreateQuery(hash)
    \/ GetNextRange
    \/ EndQuery

SpecScan == ScanInit /\ [][ScanNext]_vars

\* range r lies between the pads
InsidePads(r) ==
    /\ SEGMENT_SIZE <= r[1]
    /\ r[1] <= r[2]
    /\ r[2] <= Len(hashes) - SEGMENT_SIZE

\* ---- C22 ----
\* On a rebuilt map holding L-bit codes (the empty map too), for a query
\* created by create_query and advanced by at most L/BITS_PER_FUNCTION
\* get_next_range calls, every position at which hashes[] is read lies
\* inside the array, both loops of get_next_range terminate, and every
\* returned range [a, b) has SEGMENT_SIZE <= a <= b <= len - SEGMENT_SIZE.
C22_ScansSafe ==
    /\ query = <<>> =>
          \A hash \in AllCodes :
             CreateReads(Map, hash) \subseteq 0..(Len(hashes) - 1)
    /\ (query # <<>> /\ Len(returned) < MaxCalls) =>
          /\ Scan(Map, query[1]).reads \subseteq 0..(Len(hashes) - 1)
          /\ Scan(Map, query[1]).terminates
    /\ query # <<>> =>
          \A k \in 1..Len(returned) :
             InsidePads(returned[k].left) /\ InsidePads(returned[k].right)

\* a query has made all its calls on a map of MaxScanned entries taken in
\* by two rebuilds, the right loop of its last call went on into the right
\* padding, and it got a non-empty range
C22_Witness ==
    /\ query # <<>>
    /\ Len(returned) = MaxCalls
    /\ Len(inserted) = MaxScanned
    /\ prefix_index[2 ^ PREFIX_INDEX_BITS] < Len(hashes) - SEGMENT_SIZE
    /\ \E k \in 1..MaxCalls : RangeSet(returned[k].right) # {}
    /\ RightLoop(hashes, BitAnd(query[1].hash, query[1].prefix_mask),
                 query[1].prefix_mask, query[1].prefix_end)
          >= Len(hashes) - SEGMENT_SIZE

\* the top hash_length - bits bits of an L-bit code
TopOf(code, bits) == ShiftRight(code, Min(bits, MAX_HASHBITS))

\* ---- C23 ----
\* With L-bit codes stored in the wider word and prefix_mask starting at
\* IMPOSSIBLE_PREFIX, after the n-th get_next_range call (1 <= n <=
\* L/BITS_PER_FUNCTION) an L-bit stored code is prefix-equal to the query
\* hash under prefix_mask exactly when the two agree on their top
\* L - n*BITS_PER_FUNCTION bits; once n*BITS_PER_FUNCTION reaches L every
\* real entry agrees.
C23_PrefixLengthPerCall ==
    (query # <<>> /\ returned # <<>>) =>
        LET n    == Len(returned)
            mask == query[1].prefix_mask
            q    == query[1].hash
        IN  /\ \A code \in AllCodes :
                  prefix_eq(BitAnd(q, mask), code, mask)
                     <=> TopOf(code, n * BITS_PER_FUNCTION)
                            = TopOf(q, n * BITS_PER_FUNCTION)
            /\ n * BITS_PER_FUNCTION >= MAX_HASHBITS =>
                  \A p \in RealPositions(hashes) : Agrees(hashes, p, q, mask)

\* after its first call a query finds in the map an entry of another hash
\* that shares its prefix and an entry that does not
C23_Witness ==
    /\ query # <<>>
    /\ Len(returned) = 1
    /\ \E p \in RealPositions(hashes) :
          /\ At(hashes, p) # query[1].hash
          /\ Agrees(hashes, p, query[1].hash, query[1].prefix_mask)
    /\ \E p \in RealPositions(hashes) :
          ~Agrees(hashes, p, query[1].hash, query[1].prefix_mask)

\* ------------------------------------------------------------------
\* HashPool built with any pool size and any number of tables
\* ------------------------------------------------------------------

\* num_functions (the pool size in bits) handed to the constructor,
\* from 0 on
AnyFunctionCounts(bpf) == {0, 1, bpf, 2 * bpf + 1}

\* num_tables, from 0 on
AnyTables == {0, 1, 2}

\* line 42: what uniform_int_distribution<unsigned int>(0, num_functions-1)
\* may draw once num_functions has been divided by bits_per_function.
\* With no function left num_functions-1 wraps to the largest unsigned
\* value and the draw is any unsigned value: three of them stand for all.
IndexDraws(num_functions) ==
    IF num_functions = 0 THEN {0, 1, WordMod - 1}
    ELSE 0..(num_functions - 1)

\* line 54 with num_tables = 0 reads indices[0] of an empty vector: the
\* values bits_to_cut may get
GarbageCuts == {0, WordMod - 1}

\* the pools the constructor may leave behind; <<>> stands for a construction
\* that did not return (the read of indices[0] faulted)
HashPoolOutcomes(w, bits_per_function, bits_per_hasher, num_functions, num_tables, idx) ==
    IF num_tables = 0
    THEN {<<>>} \cup
         {<<[width |-> w,
             bits_per_function |-> bits_per_function,
             bits_per_hasher |-> bits_per_hasher,
             num_functions |-> num_functions \div bits_per_function,
             num_tables |-> num_tables,
             indices |-> idx,
             bits_to_cut |-> g]>> : g \in GarbageCuts}
    ELSE {<<HashPool(w, bits_per_function, bits_per_hasher, num_functions,
                     num_tables, idx)>>}

\* the positions of the local vector pool that hash_repetitions reads
\* (line 153: pool[idx] for every idx of every repetition)
PoolReads(p) ==
    {p.indices[rep][j] : rep \in 1..p.num_tables,
                         j \in 1..RepLen(p.bits_per_hasher,
                                         p.bits_per_function)}

AnyPoolInit ==
    /\ IdleMap
    /\ todo = <<>> /\ queries = <<>> /\ l2 = <<>> /\ store = <<>> /\ capi = <<>>
    /\ pool = [p |-> <<>>, pool_size |-> 0, built |-> FALSE,
               output |-> <<>>, outside |-> FALSE]

\* construction with any parameters
AnyPoolConstruct ==
    /\ pool # <<>>
    /\ ~pool.built
    /\ \E bpf \in PoolBitsPerFunction, L \in PoolLens(WordBits) :
       \E nf \in AnyFunctionCounts(bpf), nt \in AnyTables :
       \E idx \in [1..nt -> [1..RepLen(L, bpf) -> IndexDraws(nf \div bpf)]] :
       \E made \in HashPoolOutcomes(WordBits, bpf, L, nf, nt, idx) :
          pool' = [p |-> made, pool_size |-> nf, built |-> TRUE,
                   output |-> <<>>, outside |-> FALSE]
    /\ UNCHANGED notPoolVars

\* hash_repetitions on an input point; a read outside the local vector is
\* recorded and no codes are modelled for it
AnyPoolHashRepetitions ==
    /\ pool # <<>>
    /\ pool.p # <<>>
    /\ pool.output = <<>> /\ ~pool.outside
    /\ LET p == pool.p[1]
       IN  IF \A i \in PoolReads(p) : i < p.num_functions
           THEN \E values \in [1..p.num_functions ->
                                  SubHashVals(p.bits_per_function)] :
                   pool' = [pool EXCEPT
                               !.output = <<hash_repetitions(p, values)>>]
           ELSE pool' = [pool EXCEPT !.outside = TRUE]
    /\ UNCHANGED notPoolVars

AnyPoolDrop ==
    /\ pool # <<>>
    /\ pool.built
    /\ pool' = [p |-> <<>>, pool_size |-> 0, built |-> FALSE,
                output |-> <<>>, outside |-> FALSE]
    /\ UNCHANGED notPoolVars

AnyPoolNext ==
    \/ AnyPoolConstruct
    \/ AnyPoolHashRepetitions
    \/ AnyPoolDrop

SpecPoolAny == AnyPoolInit /\ [][AnyPoolNext]_vars

\* ---- C24 ----
\* A HashPool built with pool size pool_size, num_tables repetitions and L
\* bits per repetition owns pool_size / bits_per_function functions, holds
\* one index list per repetition with ceil(L / bits_per_function) entries,
\* every entry being a valid index of a pool member, for every
\* pool_size >= 0 and num_tables >= 0; hash_repetitions never reads
\* outside the pool.
C24_SamplingInsidePool ==
    (pool # <<>> /\ pool.built) =>
        /\ pool.p # <<>>
        /\ LET p == pool.p[1]
           IN  /\ p.num_functions = pool.pool_size \div p.bits_per_function
               /\ Len(p.indices) = p.num_tables
               /\ \A rep \in 1..p.num_tables :
                     /\ Len(p.indices[rep])
                           = RepLen(p.bits_per_hasher, p.bits_per_function)
                     /\ \A j \in 1..Len(p.indices[rep]) :
                           /\ p.indices[rep][j] >= 0
                           /\ p.indices[rep][j] < p.num_functions
        /\ ~pool.outside

\* ------------------------------------------------------------------
\* The index type behind a handle of the C interface
\* ------------------------------------------------------------------

\* ---- C25 ----
\* Every entry point operates on a handle as the index type it was created
\* with: rebuild and save applied to a handle treat it as the type of the
\* index behind it (a handle created with tag "euclidean" as an L2 index).
C25_HandleTypeConsistency ==
    (/\ capi # <<>>
     /\ capi.last # <<>>
     /\ LastCall.entry \in {"index_rebuild", "save_index"}) =>
        LastCall.treated_as = capi.handles[LastCall.handle].kind

====
